---- MODULE Spec2Model ----
(***************************************************************************)
(* Model of the searx engine adapter of websurfx                           *)
(* (src/src/engines/searx.rs, `results`) and of the aggregator's merge     *)
(* step that consumes the adapter's mapping.                               *)
(*                                                                         *)
(* One call of `results` is a process with a program counter `pc`.  The    *)
(* upstream (DNS, server, response body) is the environment: what it       *)
(* delivers is chosen when the code reads it.  The HTML document is        *)
(* reduced to what the selectors of the code can see: the sequence of      *)
(* inner HTMLs of the nodes matching `#urls>.dialog-error>p`, and the      *)
(* `.result` nodes, handed out one by one by the lazy `select` iterator    *)
(* that `collect` drives.                                                  *)
(***************************************************************************)
EXTENDS Integers, Sequences, FiniteSets, TLC

VARIABLES
    pc,          \* position of the call inside `results`
    user_agent,  \* the `user_agent` argument, a sequence of bytes
    compilable,  \* the selector strings the CSS engine accepts
    requests,    \* number of HTTP requests sent by the call
    transport,   \* what the network did with the request
    status,      \* HTTP status of the response (0: no response)
    document,    \* the parsed response body
    failed_selector, \* the selector whose compilation failed ("" if none)
    yielded,     \* number of `.result` nodes yielded by the iterator so far
    hrefs,       \* href of every card turned into a RawSearchResult
    malformed,   \* TRUE once a card lacking a sub-element was yielded
    padded,      \* TRUE once a scraped text had whitespace at an end
    card_title,  \* first argument of RawSearchResult::new, once evaluated
    card_url,    \* second argument of RawSearchResult::new, once evaluated
    results,     \* the HashMap being collected / returned
    outcome,     \* how the call ended
    mapA, mapB,  \* two adapter success mappings handed to the aggregator
    accAB, accBA,   \* accumulator merging A then B, resp. B then A
    stepAB, stepBA  \* number of mappings merged into each accumulator

callVars == <<pc, user_agent, compilable, requests, transport, status,
              document, failed_selector, yielded, hrefs, malformed,
              padded, card_title, card_url, results, outcome>>
mergeVars == <<mapA, mapB, accAB, accBA, stepAB, stepBA>>
vars == <<pc, user_agent, compilable, requests, transport, status,
          document, failed_selector, yielded, hrefs, malformed,
          padded, card_title, card_url, results, outcome, mapA, mapB, accAB, accBA, stepAB, stepBA>>

----------------------------------------------------------------------------
(* Bounds *)

MaxParas == 2
MaxCards == 2
MaxTextLen == 2
MaxUrls == 2

BSeq(S, n) == UNION {[1..k -> S] : k \in 0..n}

----------------------------------------------------------------------------
(* Constants of the code *)

NoResultSelector == "#urls>.dialog-error>p"
ResultsSelector == ".result"
TitleSelector == "h3>a"
UrlSelector == "h3>a"
DescSelector == ".content"
SelectorStrings ==
    {NoResultSelector, ResultsSelector, TitleSelector, UrlSelector, DescSelector}

NoResultMsg ==
    "we didn't find any results. Please use another query or search in more categories"

EngineName == "searx"

EmptyMap == [k \in {} |-> {}]

----------------------------------------------------------------------------
(* Input domains *)

\* user agents as bytes: "M", a line feed, "M" followed by a line feed
UserAgents == {<<77>>, <<10>>, <<77, 10>>}

SendErrors == {"dns", "refused", "timeout"}
Statuses == {200, 500}
SuccessStatus(s) == s >= 200 /\ s <= 299

DialogTexts == {NoResultMsg, "Sorry!"}
Dialogs == BSeq(DialogTexts, MaxParas)

Chars == {" ", "\n", "a"}
RawTexts == BSeq(Chars, MaxTextLen)
Hrefs == {"", "u"}

Whitespace == {" ", "\n"}
Padded(s) == s # <<>> /\ (Head(s) \in Whitespace \/ s[Len(s)] \in Whitespace)

----------------------------------------------------------------------------
(* Pure functions of the code *)

\* http::HeaderValue::from_str, reached through `user_agent.parse()`
ValidHeaderValue(bytes) ==
    \A i \in 1..Len(bytes) :
        (bytes[i] >= 32 /\ bytes[i] # 127) \/ bytes[i] = 9

IsWhitespace(c) == c \in {" ", "\n", "\t", "\r"}

RECURSIVE TrimStart(_)
TrimStart(s) ==
    IF s = <<>> THEN s
    ELSE IF IsWhitespace(Head(s)) THEN TrimStart(Tail(s)) ELSE s

RECURSIVE TrimEnd(_)
TrimEnd(s) ==
    IF s = <<>> THEN s
    ELSE IF IsWhitespace(s[Len(s)]) THEN TrimEnd(SubSeq(s, 1, Len(s) - 1))
    ELSE s

TrimStartOnly(s) == TrimStart(s)

\* str::trim
Trim(s) == TrimEnd(TrimStart(s))

\* inner_html().trim() over every inner HTML a node may hold, with the note
\* whether the inner HTML had whitespace at an end
TrimmedTexts == {[text |-> Trim(t), padded |-> Padded(t)] : t \in RawTexts}

Pending == [kind |-> "Pending", error |-> "None", attachments |-> <<>>]
Ok == [kind |-> "Ok", error |-> "None", attachments |-> <<>>]
Panic == [kind |-> "Panic", error |-> "None", attachments |-> <<>>]
Err(e, att) == [kind |-> "Err", error |-> e, attachments |-> att]

SelectorErrorNoSelector(sel) ==
    Err("UnexpectedError", <<"invalid CSS selector: ">>)

\* Report::new(UnexpectedError).attach_printable_lazy(format!(...))
SelectorError(sel) ==
    Err("UnexpectedError", <<"invalid CSS selector: ", sel>>)

NoResultFoundAnyText(dialog) == Len(dialog) >= 2

NoResultFoundFirst(dialog) ==
    Len(dialog) >= 1 /\ dialog[1] = NoResultMsg

\* document.select(&no_result).nth(1) with inner_html() == the sentinel
NoResultFound(dialog) ==
    Len(dialog) >= 2 /\ dialog[2] = NoResultMsg

NewTaggedTwice(title, url, desc) ==
    [title |-> title, visiting_url |-> url, description |-> desc,
     engine |-> <<EngineName, EngineName>>]

\* RawSearchResult::new(title, url, desc, vec!["searx"])
NewRawSearchResult(title, url, desc) ==
    [title |-> title, visiting_url |-> url, description |-> desc,
     engine |-> <<EngineName>>]

\* HashMap::from_iter: a later pair replaces an earlier pair with the same key
Insert(map, r) ==
    [k \in DOMAIN map \cup {r.visiting_url} |->
        IF k = r.visiting_url THEN r ELSE map[k]]

----------------------------------------------------------------------------
(* The call of `results` *)

InitCall(agents, engines) ==
    /\ pc = "headers"
    /\ user_agent \in agents
    /\ compilable \in engines
    /\ requests = 0
    /\ transport = "none"
    /\ status = 0
    /\ document = [parsed |-> FALSE, dialog |-> <<>>]
    /\ failed_selector = ""
    /\ yielded = 0
    /\ hrefs = {}
    /\ malformed = FALSE
    /\ padded = FALSE
    /\ card_title = <<>>
    /\ card_url = ""
    /\ results = EmptyMap
    /\ outcome = Pending

Return(o) ==
    /\ pc' = "done"
    /\ outcome' = o

\* lines 41-63: the header map; only the caller's user agent can be rejected,
\* the three literals are visible ASCII
BuildHeaders ==
    /\ pc = "headers"
    /\ IF ValidHeaderValue(user_agent)
       THEN pc' = "send" /\ UNCHANGED outcome
       ELSE Return(Err("UnexpectedError", <<"InvalidHeaderValue">>))
    /\ UNCHANGED <<user_agent, compilable, requests, transport, status,
                   document, failed_selector, yielded, hrefs, malformed,
                   padded, card_title, card_url, results>>
    /\ UNCHANGED mergeVars

\* lines 66-72: send().await; reqwest reports a response of any status as Ok
Send ==
    /\ pc = "send"
    /\ requests' = requests + 1
    /\ \/ \E e \in SendErrors :
            /\ transport' = e
            /\ status' = status
            /\ Return(Err("RequestError", <<e>>))
       \/ \E s \in Statuses :
            /\ transport' = "response"
            /\ status' = s
            /\ pc' = "text"
            /\ UNCHANGED outcome
    /\ UNCHANGED <<user_agent, compilable, document, failed_selector,
                   yielded, hrefs, malformed, padded, card_title, card_url,
                   results>>
    /\ UNCHANGED mergeVars

\* lines 73-78: text().await, then Html::parse_document
Text ==
    /\ pc = "text"
    /\ \/ /\ transport' = "body"
          /\ Return(Err("RequestError", <<"body">>))
          /\ UNCHANGED document
       \/ \E d \in Dialogs :
            /\ document' = [parsed |-> TRUE, dialog |-> d]
            /\ pc' = "parse_no_result"
            /\ UNCHANGED <<transport, outcome>>
    /\ UNCHANGED <<user_agent, compilable, requests, status,
                   failed_selector, yielded, hrefs, malformed, padded,
                   card_title, card_url, results>>
    /\ UNCHANGED mergeVars

\* lines 80-82, 92-94, 95-97, 98-100, 102-104: Selector::parse(sel)
ParseSelector(from, sel, to) ==
    /\ pc = from
    /\ IF sel \in compilable
       THEN pc' = to /\ UNCHANGED <<outcome, failed_selector>>
       ELSE Return(SelectorError(sel)) /\ failed_selector' = sel
    /\ UNCHANGED <<user_agent, compilable, requests, transport, status,
                   document, yielded, hrefs, malformed, padded, card_title, card_url,
                   results>>
    /\ UNCHANGED mergeVars

\* lines 84-90
CheckNoResult ==
    /\ pc = "check_no_result"
    /\ IF NoResultFound(document.dialog)
       THEN Return(Err("EmptyResultSet", <<>>))
       ELSE pc' = "parse_results" /\ UNCHANGED outcome
    /\ UNCHANGED <<user_agent, compilable, requests, transport, status,
                   document, failed_selector, yielded, hrefs, malformed,
                   padded, card_title, card_url, results>>
    /\ UNCHANGED mergeVars

\* a sub-element of the card is missing: unwrap() panics, and unwinding
\* drops the arguments evaluated so far and the map under construction
MissingElement ==
    /\ malformed' = TRUE
    /\ card_title' = <<>>
    /\ card_url' = ""
    /\ results' = EmptyMap
    /\ Return(Panic)

\* lines 107-117: collect pulls the next `.result` node from the lazy select
\* iterator; the closure evaluates the title, `h3>a` inner HTML, trimmed
SelectTitle ==
    /\ pc = "collect"
    /\ yielded < MaxCards
    /\ yielded' = yielded + 1
    /\ \/ /\ MissingElement
          /\ UNCHANGED padded
       \/ \E t \in TrimmedTexts :
            /\ card_title' = t.text
            /\ padded' = (padded \/ t.padded)
            /\ pc' = "card_url"
            /\ UNCHANGED <<malformed, outcome, card_url, results>>
    /\ UNCHANGED <<user_agent, compilable, requests, transport, status,
                   document, failed_selector, hrefs>>
    /\ UNCHANGED mergeVars

\* lines 118-125: the href of the anchor the title was read from
SelectUrl ==
    /\ pc = "card_url"
    /\ \/ MissingElement
       \/ \E h \in Hrefs :
            /\ card_url' = h
            /\ pc' = "card_desc"
            /\ UNCHANGED <<malformed, outcome, card_title, results>>
    /\ UNCHANGED <<user_agent, compilable, requests, transport, status,
                   document, failed_selector, yielded, hrefs, padded>>
    /\ UNCHANGED mergeVars

\* lines 126-136: the description, `.content` inner HTML, trimmed; the record
\* is built and the pair (visiting_url, record) goes into the map
SelectDesc ==
    /\ pc = "card_desc"
    /\ \/ /\ MissingElement
          /\ UNCHANGED <<padded, hrefs>>
       \/ \E c \in TrimmedTexts :
            /\ results' = Insert(results,
                    NewRawSearchResult(card_title, card_url, c.text))
            /\ hrefs' = hrefs \cup {card_url}
            /\ padded' = (padded \/ c.padded)
            /\ card_title' = <<>>
            /\ card_url' = ""
            /\ pc' = "collect"
            /\ UNCHANGED <<malformed, outcome>>
    /\ UNCHANGED <<user_agent, compilable, requests, transport, status,
                   document, failed_selector, yielded>>
    /\ UNCHANGED mergeVars

\* lines 107, 137: the iterator is exhausted, Ok(map) is returned
CollectEnd ==
    /\ pc = "collect"
    /\ Return(Ok)
    /\ UNCHANGED <<user_agent, compilable, requests, transport, status,
                   document, failed_selector, yielded, hrefs, malformed,
                   padded, card_title, card_url, results>>
    /\ UNCHANGED mergeVars

NextCall ==
    \/ BuildHeaders
    \/ Send
    \/ Text
    \/ ParseSelector("parse_no_result", NoResultSelector, "check_no_result")
    \/ CheckNoResult
    \/ ParseSelector("parse_results", ResultsSelector, "parse_title")
    \/ ParseSelector("parse_title", TitleSelector, "parse_url")
    \/ ParseSelector("parse_url", UrlSelector, "parse_desc")
    \/ ParseSelector("parse_desc", DescSelector, "collect")
    \/ SelectTitle
    \/ SelectUrl
    \/ SelectDesc
    \/ CollectEnd

----------------------------------------------------------------------------
(* The aggregator's merge step (spec section 4.3, step 3) *)

EngineNames == {"searx", "duckduckgo"}
\* the destination URLs, named by their index
Urls == 1..MaxUrls
Titles == {"t1", "t2"}
Descriptions == {"d1", "d2"}

\* the success mappings an adapter named e can return
AdapterMaps(e) ==
    UNION {{[k \in S |-> [title |-> t[k].title, visitingUrl |-> k,
                          description |-> t[k].description,
                          engines |-> {e}]] :
               t \in [S -> [title : Titles, description : Descriptions]]} :
           S \in SUBSET Urls}

MergeKeepEngines(acc, m) ==
    [k \in DOMAIN acc \cup DOMAIN m |->
        IF k \in DOMAIN acc THEN acc[k] ELSE m[k]]

\* URL present: union the engines, keep the text; otherwise insert
Merge(acc, m) ==
    [k \in DOMAIN acc \cup DOMAIN m |->
        IF k \in DOMAIN acc
        THEN IF k \in DOMAIN m
             THEN [acc[k] EXCEPT !.engines = @ \cup m[k].engines]
             ELSE acc[k]
        ELSE m[k]]

InitMerge ==
    /\ \E e \in EngineNames : mapA \in AdapterMaps(e)
    /\ \E e \in EngineNames : mapB \in AdapterMaps(e)
    /\ accAB = EmptyMap /\ accBA = EmptyMap
    /\ stepAB = 0 /\ stepBA = 0

\* adapter A completes first
MergeAB ==
    /\ stepAB < 2
    /\ accAB' = Merge(accAB, IF stepAB = 0 THEN mapA ELSE mapB)
    /\ stepAB' = stepAB + 1
    /\ UNCHANGED <<mapA, mapB, accBA, stepBA>>
    /\ UNCHANGED callVars

\* adapter B completes first
MergeBA ==
    /\ stepBA < 2
    /\ accBA' = Merge(accBA, IF stepBA = 0 THEN mapB ELSE mapA)
    /\ stepBA' = stepBA + 1
    /\ UNCHANGED <<mapA, mapB, accAB, stepAB>>
    /\ UNCHANGED callVars

NextMerge == MergeAB \/ MergeBA

----------------------------------------------------------------------------
(* Specifications *)

IdleMerge ==
    /\ mapA = EmptyMap /\ mapB = EmptyMap
    /\ accAB = EmptyMap /\ accBA = EmptyMap
    /\ stepAB = 0 /\ stepBA = 0

\* the scraper crate compiles every selector literal of the code
Init == InitCall(UserAgents, {SelectorStrings}) /\ IdleMerge
Next == NextCall
Spec == Init /\ [][Next]_vars

\* the CSS engine as a black box that may reject any selector string
InitAnyEngine == InitCall(UserAgents, SUBSET SelectorStrings) /\ IdleMerge
SpecAnyEngine == InitAnyEngine /\ [][Next]_vars

\* the aggregator merging two mappings in both completion orders
InitAggregator == InitCall({<<>>}, {SelectorStrings}) /\ InitMerge
SpecMerge == InitAggregator /\ [][NextMerge]_vars

----------------------------------------------------------------------------
(* Properties *)

Done == pc = "done"
Fetched == document.parsed
Failed(e) == outcome.kind = "Err" /\ outcome.error = e
MarkerSomewhere ==
    \E i \in 1..Len(document.dialog) : document.dialog[i] = NoResultMsg
MarkerSecond ==
    Len(document.dialog) >= 2 /\ document.dialog[2] = NoResultMsg

\* C1 as stated: every fetched response body that contains the no-results
\* marker text ends the call with EmptyResultSet (calls that met a malformed
\* card set apart).
C1_AnyMarkerIsEmptyResultSet ==
    (Done /\ Fetched /\ MarkerSomewhere /\ ~malformed) =>
        Failed("EmptyResultSet")

\* C1 amended: a fetched response body whose second dialog paragraph is
\* exactly the marker text ends the call with EmptyResultSet, before any
\* result card is read.
C1_SecondParagraphMarkerIsEmptyResultSet ==
    (Done /\ Fetched /\ MarkerSecond) =>
        (Failed("EmptyResultSet") /\ yielded = 0 /\ results = EmptyMap)

C1_Witness ==
    Done /\ Failed("EmptyResultSet") /\ document.dialog[1] = "Sorry!"

\* C2: every transport-level failure of the request (no connection, body not
\* readable, non-success status) ends the call with RequestError.
C2_TransportFailureIsRequestError ==
    (Done /\ requests = 1
          /\ (transport \in SendErrors \cup {"body"}
              \/ (status # 0 /\ ~SuccessStatus(status))))
        => Failed("RequestError")

\* C3: a malformed card is skipped; the call still succeeds with the
\* well-formed cards.
C3_MalformedCardIsSkipped ==
    (Done /\ malformed) => (outcome.kind = "Ok" /\ hrefs = DOMAIN results)

\* C4: in a success mapping every key is the visiting_url of its record, the
\* record's engine list is exactly "searx", and the href of every scraped
\* card is a key.
C4_KeyedByUrlTaggedSearx ==
    outcome.kind = "Ok" =>
        /\ \A k \in DOMAIN results :
              /\ results[k].visiting_url = k
              /\ results[k].engine = <<"searx">>
        /\ hrefs = DOMAIN results

C4_Witness ==
    outcome.kind = "Ok" /\ yielded = 2 /\ Cardinality(DOMAIN results) = 2

\* C5: in a success mapping every visiting_url is non-empty and every engine
\* list is non-empty.
C5_UrlAndEnginesNonEmpty ==
    outcome.kind = "Ok" =>
        \A k \in DOMAIN results :
            results[k].visiting_url # "" /\ Len(results[k].engine) > 0

SelectorOrder ==
    <<NoResultSelector, ResultsSelector, TitleSelector, UrlSelector,
      DescSelector>>
FirstRejected ==
    SelectorOrder[CHOOSE i \in 1..5 :
        /\ SelectorOrder[i] \notin compilable
        /\ \A j \in 1..(i - 1) : SelectorOrder[j] \in compilable]

\* C6: when the compilation of a selector fails, the call ends with
\* UnexpectedError, the diagnostic holds the string of that selector, and no
\* mapping is returned.
C6_SelectorFailureIsUnexpectedError ==
    (Done /\ Fetched /\ compilable # SelectorStrings
          /\ (NoResultSelector \notin compilable \/ ~MarkerSecond))
        => /\ Failed("UnexpectedError")
           /\ \E i \in 1..Len(outcome.attachments) :
                 outcome.attachments[i] = FirstRejected
           /\ failed_selector = FirstRejected
           /\ results = EmptyMap

C6_Witness ==
    Done /\ failed_selector = DescSelector /\ Failed("UnexpectedError")

NoEdgeWhitespace(s) ==
    s = <<>> \/ (Head(s) \notin Whitespace /\ s[Len(s)] \notin Whitespace)

\* C7: every stored title and description is free of leading and trailing
\* whitespace and newlines.
C7_StoredTextIsTrimmed ==
    \A k \in DOMAIN results :
        NoEdgeWhitespace(results[k].title)
        /\ NoEdgeWhitespace(results[k].description)

C7_Witness ==
    outcome.kind = "Ok" /\ padded
    /\ \E k \in DOMAIN results : results[k].title = <<"a">>

BothMerged == stepAB = 2 /\ stepBA = 2
SharedTextAgrees ==
    \A k \in DOMAIN mapA \cap DOMAIN mapB :
        /\ mapA[k].title = mapB[k].title
        /\ mapA[k].description = mapB[k].description

\* C8 as stated: merging A then B gives the same mapping as merging B then A.
C8_MergeCommutes == BothMerged => accAB = accBA

\* C8 amended: both orders give the same keys and the same engines per key,
\* and the same mapping when A and B agree on the text of shared URLs.
C8_MergeCommutesUpToText ==
    BothMerged =>
        /\ DOMAIN accAB = DOMAIN accBA
        /\ DOMAIN accAB = DOMAIN mapA \cup DOMAIN mapB
        /\ \A k \in DOMAIN accAB : accAB[k].engines = accBA[k].engines
        /\ SharedTextAgrees => accAB = accBA

C8_Witness ==
    /\ BothMerged
    /\ \E k \in DOMAIN mapA \cap DOMAIN mapB :
          /\ mapA[k].title # mapB[k].title
          /\ accAB[k].engines = EngineNames

\* C9: the call is Pending until it ends, ends as Succeeded, EmptyFound or
\* Failed and in no other way, sends at most one request, and sends none when
\* the user agent is rejected as a header value.
C9_ThreeOutcomesOneRequest ==
    /\ requests <= 1
    /\ ~Done => outcome = Pending
    /\ Done =>
          \/ outcome.kind = "Ok"
          \/ Failed("EmptyResultSet")
          \/ Failed("RequestError")
          \/ Failed("UnexpectedError")
    /\ (Done /\ ~ValidHeaderValue(user_agent)) =>
          (requests = 0 /\ Failed("UnexpectedError"))

\* C10: EmptyResultSet is returned only for a document holding the marker; a
\* fetched document without the marker at the place the code reads and
\* without result cards gives an empty success mapping.
C10_EmptyResultSetOnlyForMarker ==
    /\ Failed("EmptyResultSet") => (Fetched /\ MarkerSomewhere)
    /\ (Done /\ Fetched /\ ~MarkerSecond /\ yielded = 0) =>
          (outcome.kind = "Ok" /\ results = EmptyMap)

C10_Witness ==
    /\ Done /\ outcome.kind = "Ok" /\ results = EmptyMap /\ yielded = 0
    /\ Len(document.dialog) = 2

====
